---- MODULE Spec2Model ----
(***************************************************************************)
(* Portfolio backend: the Express router (routes/portfolio.js with the     *)
(* schema of models/Portfolio.js and middleware/upload.js) and the         *)
(* serverless handler (api/portfolio/index.js), both working on the same   *)
(* document store and GridFS bucket.                                       *)
(*                                                                         *)
(* JavaScript values are written as strings: "undefined" is an absent      *)
(* field, "true"/"false" are the booleans, "'true'"/"'false'" the strings  *)
(* a multipart form or a query string carries.  ObjectIds are positive     *)
(* integers, null is 0, a malformed identifier is -1.  Korean literals of  *)
(* the source are written as ASCII tokens, named where they are defined.   *)
(* Requests run one at a time: an action is one whole request handler;    *)
(* SpecRace alone runs read-by-id requests step by step.                   *)
(* The operations of the document store and saveToGridFS succeed; the one  *)
(* store failure modelled is that of deleteFromGridFS, which the handlers  *)
(* catch.  updatedAt is not modelled; nothing below reads it.              *)
(***************************************************************************)
EXTENDS Integers, Sequences, FiniteSets, TLC

VARIABLES
    store,      \* the portfolios collection: _id -> document
    blobs,      \* the _ids of the files in the GridFS bucket portfolio_images
    nextId,     \* the next ObjectId of a document
    nextBlob,   \* the next ObjectId of a GridFS file
    cachedConnection, \* the serverless module's cached connection (NULL: none),
                \* numbered by the mongoose.connect call that opened it
    readyState, \* mongoose.connection.readyState of the serverless process
    mongodbUri, \* process.env.MONGODB_URI of the serverless process is set
    loaded,     \* read-by-id requests in flight: request -> the document findById
                \* returned to it (with its _id)
    reads,      \* history: per document, the read-by-id requests answered 200
    resp        \* the last request and its response

vars == <<store, blobs, nextId, nextBlob, cachedConnection, readyState,
          mongodbUri, loaded, reads, resp>>

(***************************************************************************)
(* Bounds of the model.                                                    *)
(***************************************************************************)
MaxCreated == 1        \* entries created by requests
MaxViews   == 3        \* reads of one entry
MaxLikes   == 2        \* likes of one entry
MaxBlobs   == 2        \* blobs stored in GridFS
MaxConnects == 2       \* connections the serverless process opens

UNDEF == "undefined"
NULL  == 0
BadId == -1

Handlers == {"router", "serverless"}

(***************************************************************************)
(* Field values.                                                           *)
(***************************************************************************)
\* Portfolio.js:51 -- 'AI/ML', enterprise, 'IoT', platform, benchmark, data, 'OCR'
Categories == {"AI/ML", "Enterprise", "IoT", "Platform", "Benchmark", "Data", "OCR"}

MsgTitleRequired    == "title.required"
MsgTitleMax         == "title.maxlength"
MsgDescRequired     == "description.required"
MsgDescMax          == "description.maxlength"
MsgUrl              == "url.validator"
MsgCategoryRequired == "category.required"
MsgCategoryEnum     == "category.enum"
MsgTagMax           == "tags.maxlength"

\* String.prototype.trim on the strings the model uses.
Trim(s) == CASE s = " Alpha " -> "Alpha"
             [] s = "   "     -> ""
             [] OTHER         -> s

\* s.length, as far as the schema's maxlength rules can tell strings apart.
StrLen(s) == CASE s = ""      -> 0
               [] s = "T201"  -> 201
               [] s = "D2001" -> 2001
               [] s = "G51"   -> 51
               [] OTHER       -> 5

\* parseInt of a string that is a decimal numeral
ParseInt(s) == CASE s = "1" -> 1 [] s = "2" -> 2 [] s = "3" -> 3
                 [] s = "4" -> 4 [] s = "5" -> 5 [] s = "10" -> 10

\* new URL(v) succeeds
UrlParses(v) == v \in {"https://a.example/", "https://b.example/"}

\* Code-point order of the titles (the order of a MongoDB sort on title).
TitleRank(t) == CASE t = "API Hub"        -> 1
                  [] t = "Alpha"          -> 2
                  [] t = "Beta"           -> 3
                  [] t = "CULF AI"        -> 4
                  [] t = "CoDAi"          -> 5
                  [] t = "HR Center"      -> 6
                  [] t = "LLM Bench"      -> 7
                  [] t = "LawChat AI"     -> 8
                  [] t = "OCR Benchmark"  -> 9
                  [] t = "Regulation Bot" -> 10
                  [] t = "Smart Factory"  -> 11
                  [] OTHER                -> 12

\* A request body's tags: absent, a JSON array, or one comma-separated string
\* (parts are the pieces between the commas; no parts is the empty string).
NoTags         == [kind |-> "undefined", parts |-> <<>>]
TagString(s)   == [kind |-> "string", parts |-> s]

MapTrim(s) == [i \in 1..Len(s) |-> Trim(s[i])]

\* ''.split(',') is [''], 'a,b'.split(',') is ['a','b']
Split(t) == IF t.parts = <<>> THEN <<"">> ELSE t.parts

\* routes/portfolio.js:148 -- tags ? (Array.isArray(tags) ? tags : split/trim) : []
CreateTags(t) ==
    CASE t.kind = "undefined" -> <<>>
      [] t.kind = "array"     -> MapTrim(t.parts)
      [] t.parts = <<>>       -> <<>>
      [] OTHER                -> MapTrim(Split(t))

\* routes/portfolio.js:222 -- Array.isArray(tags) ? tags : split/trim
UpdateTags(t) ==
    IF t.kind = "array" THEN MapTrim(t.parts) ELSE MapTrim(Split(t))

\* routes/portfolio.js:149 -- featured === 'true' || featured === true
ParseFeatured(f) == f = "'true'" \/ f = "true"

\* JavaScript truthiness of the values a body field can carry.
Truthy(v) == v \notin {UNDEF, "", "false"}

(***************************************************************************)
(* The schema (models/Portfolio.js).                                       *)
(***************************************************************************)
\* new Portfolio(data): the setters (trim) and the defaults of the schema.
\* createdAt is the allocation order of the _id: later documents are newer.
NewPortfolio(data, id) ==
    [title       |-> IF data.title = UNDEF THEN UNDEF ELSE Trim(data.title),
     description |-> IF data.description = UNDEF THEN UNDEF ELSE Trim(data.description),
     url         |-> IF data.url = UNDEF THEN UNDEF ELSE Trim(data.url),
     category    |-> data.category,
     tags        |-> MapTrim(data.tags),
     featured    |-> data.featured,
     image       |-> data.image,
     imageId     |-> data.imageId,
     imageBase64 |-> data.imageBase64,
     views       |-> 0,
     likes       |-> 0,
     createdAt   |-> id]

\* The validators of the schema; one message per failing path.
Validate(doc) ==
       (IF doc.title \in {UNDEF, ""} THEN {MsgTitleRequired}
        ELSE IF StrLen(doc.title) > 200 THEN {MsgTitleMax} ELSE {})
  \cup (IF doc.description \in {UNDEF, ""} THEN {MsgDescRequired}
        ELSE IF StrLen(doc.description) > 2000 THEN {MsgDescMax} ELSE {})
  \cup (IF doc.url \notin {UNDEF, ""} /\ ~UrlParses(doc.url) THEN {MsgUrl} ELSE {})
  \cup (IF doc.category \in {UNDEF, ""} THEN {MsgCategoryRequired}
        ELSE IF doc.category \notin Categories THEN {MsgCategoryEnum} ELSE {})
  \cup (IF \E i \in 1..Len(doc.tags) : StrLen(doc.tags[i]) > 50
        THEN {MsgTagMax} ELSE {})

\* `/api/portfolio/image/${imageId}`
BlobUrl(fileId) == <<"/api/portfolio/image/", fileId>>
InlineUrl(s)    == <<s, NULL>>
NoUrl           == <<"", NULL>>

imageUrl_AsBlobFirst(doc) ==
    IF doc.imageId # NULL THEN BlobUrl(doc.imageId)
    ELSE IF doc.imageBase64 # "" THEN InlineUrl(doc.imageBase64)
    ELSE IF doc.image # "" THEN InlineUrl(doc.image)
    ELSE NoUrl

\* portfolioSchema.virtual('imageUrl')
imageUrl(doc) ==
    IF doc.imageBase64 # "" THEN InlineUrl(doc.imageBase64)
    ELSE IF doc.imageId # NULL THEN BlobUrl(doc.imageId)
    ELSE IF doc.image # "" THEN InlineUrl(doc.image)
    ELSE NoUrl

toggleLike_AsAlwaysUp(doc, increment) == [doc EXCEPT !.likes = doc.likes + 1]

toggleLike_AsNoFloor(doc, increment) ==
    [doc EXCEPT !.likes = doc.likes + (IF Truthy(increment) THEN 1 ELSE -1)]

\* portfolioSchema.methods.toggleLike (the document it saves)
toggleLike(doc, increment) ==
    LET n == doc.likes + (IF Truthy(increment) THEN 1 ELSE -1)
    IN  [doc EXCEPT !.likes = IF n < 0 THEN 0 ELSE n]

incrementViews_AsNoChange(doc) == doc

\* portfolioSchema.methods.incrementViews (the document it saves)
incrementViews(doc) == [doc EXCEPT !.views = doc.views + 1]

(***************************************************************************)
(* The seed data (initializeDefaultData).                                  *)
(***************************************************************************)
NumSeeds == 9

Seed(t, c, g, f, k) ==
    [title |-> t, description |-> "seed description", url |-> "https://a.example/",
     category |-> c, tags |-> g, featured |-> f, image |-> k,
     imageId |-> NULL, imageBase64 |-> ""]

defaultPortfolios ==
    << Seed("Regulation Bot", "AI/ML",      <<"AI", "NLP">>,       TRUE,  "s1.png"),
       Seed("HR Center",      "Enterprise", <<"HR", "AI">>,        TRUE,  "s2.png"),
       Seed("Smart Factory",  "IoT",        <<"IoT", "realtime">>, TRUE,  "s3.png"),
       Seed("API Hub",        "Platform",   <<"API", "platform">>, TRUE,  "s4.png"),
       Seed("LawChat AI",     "AI/ML",      <<"law", "AI">>,       TRUE,  "s5.png"),
       Seed("LLM Bench",      "Benchmark",  <<"LLM", "analysis">>, TRUE,  "s6.png"),
       Seed("OCR Benchmark",  "OCR",        <<"OCR", "analysis">>, TRUE,  "s7.png"),
       Seed("CoDAi",          "Data",       <<"data", "ERP">>,     TRUE,  "s8.png"),
       Seed("CULF AI",        "AI/ML",      <<"curation", "AI">>,  FALSE, "s9.png") >>

\* Portfolio.insertMany(defaultPortfolios) into collection s, _ids from first on;
\* the documents of one insertMany carry the same createdAt.
InsertSeeds(s, first) ==
    [id \in DOMAIN s \cup (first .. first + NumSeeds - 1) |->
        IF id \in DOMAIN s THEN s[id]
        ELSE [NewPortfolio(defaultPortfolios[id - first + 1], id)
                EXCEPT !.createdAt = first]]

\* initializeDefaultData: <<collection, next _id>> after it
initializeDefaultData(s, first) ==
    IF Cardinality(DOMAIN s) = 0
    THEN <<InsertSeeds(s, first), first + NumSeeds>>
    ELSE <<s, first>>

(***************************************************************************)
(* GridFS (middleware/upload.js).  up: bucket.delete of a stored file      *)
(* calls back without an error.                                            *)
(***************************************************************************)
\* multer's fileFilter and limits: the upload is let through to the handler
FileAccepted(file) == file \in {"none", "image/png"}

\* saveToGridFS: the bucket after the upload of a file with _id fileId
saveToGridFS(b, fileId) == b \cup {fileId}

\* deleteFromGridFS(fileId) resolves: the bucket answers and holds the file
DeleteOk(b, fileId, up) == up /\ fileId \in b

\* the bucket after deleteFromGridFS(fileId)
deleteFromGridFS(b, fileId, up) ==
    IF DeleteOk(b, fileId, up) THEN b \ {fileId} ELSE b

(***************************************************************************)
(* Responses.                                                              *)
(***************************************************************************)
NoPagination ==
    [skip |-> 0, currentPage |-> 0, totalPages |-> 0, totalItems |-> 0,
     itemsPerPage |-> 0, hasNext |-> FALSE, hasPrev |-> FALSE]

NoUrlField == <<UNDEF, NULL>>

NoQuery ==
    [category |-> UNDEF, tags |-> NoTags, search |-> UNDEF, sort |-> UNDEF,
     page |-> UNDEF, limit |-> UNDEF, featured |-> UNDEF]

\* res.status(status).json(...), with what the handler logged on the way
Response(h, op, id, status) ==
    [h |-> h, op |-> op, id |-> id, status |-> status,
     details    |-> {},            \* details of a 400
     imageUrl   |-> NoUrlField,    \* data.imageUrl
     likes      |-> -1,            \* data.likes of a like response
     prior      |-> -1,            \* the likes of the document a like request loaded
     warn       |-> FALSE,         \* console.warn: a blob deletion failed
     fields     |-> {},            \* the keys of updateData
     query      |-> NoQuery,       \* req.query of a list request
     data       |-> <<>>,          \* the _ids of data, in order, of a list response
     pagination |-> NoPagination]

\* the history of reads, extended to new documents
NoReads(r, ids) == [id \in DOMAIN r \cup ids |-> IF id \in DOMAIN r THEN r[id] ELSE 0]

IsValid(id) == id > 0              \* mongoose.Types.ObjectId.isValid

\* toJSON of a document: the router's schema has the virtual, the serverless one not
JsonImageUrl(h, doc) == IF h = "router" THEN imageUrl(doc) ELSE NoUrlField

\* connectDB returns: the cached connection is reused, or MONGODB_URI is set
\* and mongoose.connect resolves (ok)
ConnectReturns(ok) ==
    IF cachedConnection # NULL /\ readyState = 1 THEN TRUE ELSE mongodbUri /\ ok

CachedConnect_AsAlwaysConnect(ok) ==
    /\ UNCHANGED mongodbUri
    /\ IF mongodbUri /\ ok
       THEN /\ cachedConnection < MaxConnects
            /\ cachedConnection' = cachedConnection + 1
            /\ readyState' = 1
       ELSE UNCHANGED <<cachedConnection, readyState>>

\* connectDB of the serverless module
CachedConnect(ok) ==
    /\ UNCHANGED mongodbUri
    /\ IF cachedConnection # NULL /\ readyState = 1
       THEN UNCHANGED <<cachedConnection, readyState>>
       ELSE IF mongodbUri /\ ok
       THEN /\ cachedConnection < MaxConnects
            /\ cachedConnection' = cachedConnection + 1
            /\ readyState' = 1
       ELSE UNCHANGED <<cachedConnection, readyState>>

\* await connectDB() at the head of a serverless handler that goes on: it
\* returned (MONGODB_URI set, the store reachable); the router works on the
\* connection of startServer
connectDB(h) ==
    IF h = "serverless"
    THEN ConnectReturns(TRUE) /\ CachedConnect(TRUE)
    ELSE UNCHANGED <<cachedConnection, readyState, mongodbUri>>

\* a serverless invocation up to the end of await connectDB(): it returns, or
\* it throws and the handler's catch answers 500
ConnectDB(ok) ==
    /\ CachedConnect(ok)
    /\ resp' = Response("serverless", "connectDB", NULL,
                        IF ConnectReturns(ok) THEN 200 ELSE 500)
    /\ UNCHANGED <<store, blobs, nextId, nextBlob, loaded, reads>>

\* the connection of the serverless process is lost
Disconnect ==
    /\ readyState = 1
    /\ readyState' = 0
    /\ UNCHANGED <<store, blobs, nextId, nextBlob, cachedConnection, mongodbUri,
                   loaded, reads, resp>>

(***************************************************************************)
(* GET /:id -- router.get('/:id'), app.get('/:id')                         *)
(***************************************************************************)
GetById(h, id) ==
    /\ connectDB(h)
    /\ UNCHANGED loaded
    /\ UNCHANGED <<blobs, nextId, nextBlob>>
    /\ IF ~IsValid(id)
       THEN /\ resp' = Response(h, "get", id, 400)
            /\ UNCHANGED <<store, reads>>
       ELSE IF id \notin DOMAIN store
       THEN /\ resp' = Response(h, "get", id, 404)
            /\ UNCHANGED <<store, reads>>
       ELSE LET portfolio == incrementViews(store[id])
            IN  /\ store[id].views < MaxViews
                /\ store' = [store EXCEPT ![id] = portfolio]
                /\ reads' = [reads EXCEPT ![id] = @ + 1]
                /\ resp' = [Response(h, "get", id, 200)
                              EXCEPT !.imageUrl = JsonImageUrl(h, portfolio)]

(***************************************************************************)
(* GET /:id step by step, for requests that run at the same time: the      *)
(* handler awaits findById, then incrementViews, whose save writes the     *)
(* path it modified.                                                       *)
(***************************************************************************)
Requests == {"first", "second"}

SaveViews_AsInc(current, portfolio) ==
    [current EXCEPT !.views = current.views + 1]

\* this.save() of incrementViews: views is the one modified path, and the
\* stored document gets the value the request computed
SaveViews(current, portfolio) ==
    [current EXCEPT !.views = portfolio.views]

\* await Portfolio.findById(id), after the identifier check
ReadLoad(r, h, id) ==
    /\ r \notin DOMAIN loaded
    /\ connectDB(h)
    /\ UNCHANGED <<store, blobs, nextId, nextBlob, reads>>
    /\ IF ~IsValid(id)
       THEN /\ resp' = Response(h, "get", id, 400)
            /\ UNCHANGED loaded
       ELSE IF id \notin DOMAIN store
       THEN /\ resp' = Response(h, "get", id, 404)
            /\ UNCHANGED loaded
       ELSE /\ loaded' = [q \in DOMAIN loaded \cup {r} |->
                            IF q = r THEN [h |-> h, id |-> id, doc |-> store[id]]
                            ELSE loaded[q]]
            /\ UNCHANGED resp

\* await portfolio.incrementViews(), then res.json
ReadSave(r) ==
    /\ r \in DOMAIN loaded
    /\ LET h  == loaded[r].h
           id == loaded[r].id
           portfolio == incrementViews(loaded[r].doc)
       IN  /\ id \in DOMAIN store
           /\ reads[id] < MaxViews
           /\ store' = [store EXCEPT ![id] = SaveViews(store[id], portfolio)]
           /\ reads' = [reads EXCEPT ![id] = @ + 1]
           /\ resp' = [Response(h, "get", id, 200)
                         EXCEPT !.imageUrl = JsonImageUrl(h, portfolio)]
    /\ loaded' = [q \in DOMAIN loaded \ {r} |-> loaded[q]]
    /\ UNCHANGED <<blobs, nextId, nextBlob, cachedConnection, readyState, mongodbUri>>

(***************************************************************************)
(* GET /image/:fileId -- router.get('/image/:fileId')                      *)
(***************************************************************************)
GetImage(fileId) ==
    /\ UNCHANGED <<store, blobs, nextId, nextBlob, cachedConnection, readyState,
                   mongodbUri, loaded, reads>>
    /\ resp' = Response("router", "image", fileId,
                        IF ~IsValid(fileId) THEN 400
                        ELSE IF fileId \notin blobs THEN 404  \* getFileInfo throws
                        ELSE 200)

(***************************************************************************)
(* POST /:id/like -- router.post('/:id/like'); increment is req.body's     *)
(* field, true when absent.                                                *)
(***************************************************************************)
ToggleLike(id, inc) ==
    LET h == "router"
        increment == IF inc = UNDEF THEN "true" ELSE inc
    IN
    /\ UNCHANGED <<blobs, nextId, nextBlob, cachedConnection, readyState, mongodbUri,
                   loaded, reads>>
    /\ IF ~IsValid(id)
       THEN /\ resp' = Response(h, "like", id, 400)
            /\ UNCHANGED store
       ELSE IF id \notin DOMAIN store
       THEN /\ resp' = Response(h, "like", id, 404)
            /\ UNCHANGED store
       ELSE LET portfolio == toggleLike(store[id], increment)
            IN  /\ portfolio.likes <= MaxLikes
                /\ store' = [store EXCEPT ![id] = portfolio]
                /\ resp' = [Response(h, "like", id, 200)
                              EXCEPT !.likes = portfolio.likes,
                                     !.prior = store[id].likes]

(***************************************************************************)
(* POST / -- router.post('/', upload.single('image')), app.post('/')       *)
(* The serverless handler takes no upload: file is "none" there.           *)
(***************************************************************************)
MaxId == NumSeeds + MaxCreated

Create(h, body, file) ==
    LET stores == h = "router" /\ file # "none"
        fileId == nextBlob
        portfolioData ==
            [title |-> body.title, description |-> body.description,
             url |-> body.url, category |-> body.category,
             tags |-> CreateTags(body.tags),
             featured |-> ParseFeatured(body.featured),
             image |-> "",
             imageId |-> IF stores THEN fileId ELSE NULL,
             imageBase64 |-> IF ~stores /\ Truthy(body.imageBase64)
                             THEN body.imageBase64 ELSE ""]
        portfolio == NewPortfolio(portfolioData, nextId)
        errors == Validate(portfolio)
    IN
    /\ nextId <= MaxId
    /\ h = "serverless" => file = "none"
    /\ connectDB(h)
    /\ UNCHANGED loaded
    /\ IF ~FileAccepted(file)
       THEN \* multer passes its error to the application's error handler
            /\ resp' = Response(h, "create", NULL, 500)
            /\ UNCHANGED <<store, blobs, nextId, nextBlob, reads>>
       ELSE /\ stores => nextBlob <= MaxBlobs
            /\ blobs' = IF stores THEN saveToGridFS(blobs, fileId) ELSE blobs
            /\ nextBlob' = IF stores THEN nextBlob + 1 ELSE nextBlob
            /\ IF errors # {}
               THEN /\ resp' = [Response(h, "create", NULL, 400)
                                  EXCEPT !.details = errors]
                    /\ UNCHANGED <<store, nextId, reads>>
               ELSE /\ store' = [id \in DOMAIN store \cup {nextId} |->
                                    IF id = nextId THEN portfolio ELSE store[id]]
                    /\ nextId' = nextId + 1
                    /\ reads' = NoReads(reads, {nextId})
                    /\ resp' = [Response(h, "create", nextId, 201)
                                  EXCEPT !.imageUrl = JsonImageUrl(h, portfolio)]

(***************************************************************************)
(* PUT /:id -- router.put('/:id', upload.single('image')), app.put('/:id') *)
(***************************************************************************)
BodyFields == {"title", "description", "url", "category", "tags", "featured"}

\* the keys of updateData among the six plain fields
Present(body) ==
    {f \in BodyFields \ {"tags"} : body[f] # UNDEF}
      \cup (IF body.tags.kind # "undefined" THEN {"tags"} ELSE {})

ImageBranch_AsPayloadFirst(h, file, body) ==
    IF h = "router" /\ Truthy(body.imageBase64) THEN "base64"
    ELSE IF h = "router" /\ file # "none" THEN "file"
    ELSE IF h = "serverless" /\ body.imageBase64 # UNDEF THEN "assign"
    ELSE "none"

\* the branch of the image handling an update request takes
ImageBranch(h, file, body) ==
    IF h = "router" /\ file # "none" THEN "file"
    ELSE IF h = "router" /\ Truthy(body.imageBase64) THEN "base64"
    ELSE IF h = "serverless" /\ body.imageBase64 # UNDEF THEN "assign"
    ELSE "none"

UpdateImage_AsKeepInline(doc, branch, fileId, imageBase64) ==
    CASE branch = "file"   -> [doc EXCEPT !.imageId = fileId]
      [] branch = "base64" -> [doc EXCEPT !.imageBase64 = imageBase64,
                                          !.imageId = NULL]
      [] branch = "assign" -> [doc EXCEPT !.imageBase64 = imageBase64]
      [] OTHER             -> doc

\* the image fields of updateData, assigned to the loaded document
UpdateImage(doc, branch, fileId, imageBase64) ==
    CASE branch = "file"   -> [doc EXCEPT !.imageId = fileId, !.imageBase64 = ""]
      [] branch = "base64" -> [doc EXCEPT !.imageBase64 = imageBase64,
                                          !.imageId = NULL]
      [] branch = "assign" -> [doc EXCEPT !.imageBase64 = imageBase64]
      [] OTHER             -> doc

AssignFields_AsAssignBody(doc, body) ==
    [doc EXCEPT
       !.title       = IF body.title # UNDEF THEN Trim(body.title) ELSE @,
       !.description = IF body.description # UNDEF THEN Trim(body.description) ELSE @,
       !.url         = IF body.url # UNDEF THEN Trim(body.url) ELSE @,
       !.category    = IF body.category # UNDEF THEN body.category ELSE @,
       !.tags        = IF body.tags.kind # "undefined" THEN UpdateTags(body.tags) ELSE @,
       !.featured    = IF body.featured # UNDEF THEN ParseFeatured(body.featured) ELSE @,
       !.views       = IF body.views # UNDEF THEN ParseInt(body.views) ELSE @,
       !.likes       = IF body.likes # UNDEF THEN ParseInt(body.likes) ELSE @]

\* Object.assign(portfolio, updateData) for the six plain fields; the handler
\* reads no other field of req.body (views, likes)
AssignFields(doc, body) ==
    [doc EXCEPT
       !.title       = IF body.title # UNDEF THEN Trim(body.title) ELSE @,
       !.description = IF body.description # UNDEF THEN Trim(body.description) ELSE @,
       !.url         = IF body.url # UNDEF THEN Trim(body.url) ELSE @,
       !.category    = IF body.category # UNDEF THEN body.category ELSE @,
       !.tags        = IF body.tags.kind # "undefined" THEN UpdateTags(body.tags) ELSE @,
       !.featured    = IF body.featured # UNDEF THEN ParseFeatured(body.featured) ELSE @]

Update(h, id, body, file, up) ==
    LET old     == store[id]
        hasOld  == old.imageId # NULL
        branch  == ImageBranch(h, file, body)
        deletes == branch \in {"file", "base64"} /\ hasOld
        afterDelete == IF deletes THEN deleteFromGridFS(blobs, old.imageId, up)
                       ELSE blobs
        fileId  == nextBlob
        withImage == UpdateImage(old, branch, fileId, body.imageBase64)
        portfolio == AssignFields(withImage, body)
        errors  == Validate(portfolio)
        keys    == Present(body)
                     \cup (IF branch = "file" THEN {"imageId", "imageBase64"} ELSE {})
                     \cup (IF branch = "base64" THEN {"imageBase64"} ELSE {})
                     \cup (IF branch = "base64" /\ hasOld THEN {"imageId"} ELSE {})
                     \cup (IF branch = "assign" THEN {"imageBase64"} ELSE {})
        warned  == deletes /\ ~DeleteOk(blobs, old.imageId, up)
    IN
    /\ h = "serverless" => file = "none"
    /\ connectDB(h)
    /\ UNCHANGED loaded
    /\ UNCHANGED <<nextId, reads>>
    /\ IF ~FileAccepted(file)
       THEN /\ resp' = Response(h, "update", id, 500)
            /\ UNCHANGED <<store, blobs, nextBlob>>
       ELSE IF ~IsValid(id)
       THEN /\ resp' = Response(h, "update", id, 400)
            /\ UNCHANGED <<store, blobs, nextBlob>>
       ELSE IF id \notin DOMAIN store
       THEN /\ resp' = Response(h, "update", id, 404)
            /\ UNCHANGED <<store, blobs, nextBlob>>
       ELSE /\ branch = "file" => nextBlob <= MaxBlobs
            /\ blobs' = IF branch = "file" THEN saveToGridFS(afterDelete, fileId)
                        ELSE afterDelete
            /\ nextBlob' = IF branch = "file" THEN nextBlob + 1 ELSE nextBlob
            /\ IF errors # {}
               THEN /\ resp' = [Response(h, "update", id, 400)
                                  EXCEPT !.details = errors, !.warn = warned,
                                         !.fields = keys]
                    /\ UNCHANGED store
               ELSE /\ store' = [store EXCEPT ![id] = portfolio]
                    /\ resp' = [Response(h, "update", id, 200)
                                  EXCEPT !.imageUrl = JsonImageUrl(h, portfolio),
                                         !.warn = warned, !.fields = keys]

(***************************************************************************)
(* PUT /:id of the router step by step, for requests that run at the same  *)
(* time: the handler awaits findById, then the blob operations of its      *)
(* image branch, then portfolio.save(), which writes the paths whose value *)
(* the request changed on the copy it loaded.                              *)
(***************************************************************************)
\* await portfolio.save() on a loaded document: the update sets the modified
\* paths of the stored document and leaves its other paths alone
SaveModified(current, old, portfolio) ==
    [f \in DOMAIN current |->
        IF portfolio[f] # old[f] THEN portfolio[f] ELSE current[f]]

\* the image branch of the request awaits a blob operation: an upload is
\* stored, or the blob of the loaded copy is deleted
HasBlobStep(doc, file, body) ==
    LET branch == ImageBranch("router", file, body)
    IN  IF branch = "file" THEN TRUE
        ELSE IF branch = "base64" THEN doc.imageId # NULL
        ELSE FALSE

\* upload.single('image'), the identifier check and await Portfolio.findById(id)
UpdateLoad(r, id, body, file, up) ==
    /\ r \notin DOMAIN loaded
    /\ UNCHANGED <<store, blobs, nextId, nextBlob, reads,
                   cachedConnection, readyState, mongodbUri>>
    /\ IF ~FileAccepted(file)
       THEN /\ resp' = Response("router", "update", id, 500)
            /\ UNCHANGED loaded
       ELSE IF ~IsValid(id)
       THEN /\ resp' = Response("router", "update", id, 400)
            /\ UNCHANGED loaded
       ELSE IF id \notin DOMAIN store
       THEN /\ resp' = Response("router", "update", id, 404)
            /\ UNCHANGED loaded
       ELSE /\ loaded' = [q \in DOMAIN loaded \cup {r} |->
                            IF q = r
                            THEN [h |-> "router", id |-> id, doc |-> store[id],
                                  body |-> body, file |-> file, up |-> up,
                                  fileId |-> NULL, warn |-> FALSE,
                                  pc |-> IF HasBlobStep(store[id], file, body)
                                         THEN "image" ELSE "save"]
                            ELSE loaded[q]]
            /\ UNCHANGED resp

\* the image branch of a loaded request: await deleteFromGridFS of the blob
\* the loaded copy refers to, then await saveToGridFS of the upload
UpdateBlobs(r) ==
    /\ r \in DOMAIN loaded
    /\ loaded[r].pc = "image"
    /\ LET l       == loaded[r]
           branch  == ImageBranch("router", l.file, l.body)
           deletes == l.doc.imageId # NULL
           afterDelete == IF deletes
                          THEN deleteFromGridFS(blobs, l.doc.imageId, l.up)
                          ELSE blobs
       IN  /\ branch = "file" => nextBlob <= MaxBlobs
           /\ blobs' = IF branch = "file"
                       THEN saveToGridFS(afterDelete, nextBlob)
                       ELSE afterDelete
           /\ nextBlob' = IF branch = "file" THEN nextBlob + 1 ELSE nextBlob
           /\ loaded' = [loaded EXCEPT
                           ![r].fileId = IF branch = "file" THEN nextBlob ELSE NULL,
                           ![r].warn = deletes
                                         /\ ~DeleteOk(blobs, l.doc.imageId, l.up),
                           ![r].pc = "save"]
    /\ UNCHANGED <<store, nextId, reads, resp,
                   cachedConnection, readyState, mongodbUri>>

\* Object.assign(portfolio, updateData), await portfolio.save(), res.json
UpdateSave(r) ==
    /\ r \in DOMAIN loaded
    /\ loaded[r].pc = "save"
    /\ LET l      == loaded[r]
           id     == l.id
           branch == ImageBranch("router", l.file, l.body)
           portfolio == AssignFields(
                            UpdateImage(l.doc, branch, l.fileId, l.body.imageBase64),
                            l.body)
           errors == Validate(portfolio)
           keys   == Present(l.body)
                       \cup (IF branch = "file" THEN {"imageId", "imageBase64"} ELSE {})
                       \cup (IF branch = "base64" THEN {"imageBase64"} ELSE {})
                       \cup (IF branch = "base64" /\ l.doc.imageId # NULL
                             THEN {"imageId"} ELSE {})
       IN  IF errors # {}
           THEN /\ resp' = [Response("router", "update", id, 400)
                              EXCEPT !.details = errors, !.warn = l.warn,
                                     !.fields = keys]
                /\ UNCHANGED store
           ELSE IF id \notin DOMAIN store
           THEN \* DocumentNotFoundError, the handler's catch
                /\ resp' = Response("router", "update", id, 500)
                /\ UNCHANGED store
           ELSE /\ store' = [store EXCEPT
                               ![id] = SaveModified(store[id], l.doc, portfolio)]
                /\ resp' = [Response("router", "update", id, 200)
                              EXCEPT !.imageUrl = JsonImageUrl("router", portfolio),
                                     !.warn = l.warn, !.fields = keys]
    /\ loaded' = [q \in DOMAIN loaded \ {r} |-> loaded[q]]
    /\ UNCHANGED <<blobs, nextId, nextBlob, reads,
                   cachedConnection, readyState, mongodbUri>>

(***************************************************************************)
(* DELETE /:id -- router.delete('/:id'), app.delete('/:id')                *)
(***************************************************************************)
DeleteImageCaught_AsThrown(b, fileId, up) == DeleteOk(b, fileId, up)

\* try { await deleteFromGridFS(portfolio.imageId) } catch (deleteError)
\* { console.warn(...) }: the handler goes on after the block
DeleteImageCaught(b, fileId, up) == TRUE

Delete(h, id, up) ==
    LET portfolio == store[id]
        deletes   == h = "router" /\ portfolio.imageId # NULL
    IN
    /\ connectDB(h)
    /\ UNCHANGED loaded
    /\ UNCHANGED <<nextId, nextBlob, reads>>
    /\ IF ~IsValid(id)
       THEN /\ resp' = Response(h, "delete", id, 400)
            /\ UNCHANGED <<store, blobs>>
       ELSE IF id \notin DOMAIN store
       THEN /\ resp' = Response(h, "delete", id, 404)
            /\ UNCHANGED <<store, blobs>>
       ELSE IF deletes /\ ~DeleteImageCaught(blobs, portfolio.imageId, up)
       THEN \* the handler's own catch
            /\ resp' = Response(h, "delete", id, 500)
            /\ UNCHANGED <<store, blobs>>
       ELSE /\ blobs' = IF deletes
                        THEN deleteFromGridFS(blobs, portfolio.imageId, up)
                        ELSE blobs
            /\ store' = [i \in DOMAIN store \ {id} |-> store[i]]
            /\ resp' = [Response(h, "delete", id, 200)
                          EXCEPT !.warn = deletes
                                   /\ ~DeleteOk(blobs, portfolio.imageId, up)]

(***************************************************************************)
(* GET / -- findWithFilters and the list handlers.                         *)
(* Sort modes, in the source's order: "newest", "popular", "name",         *)
(* "views"; any other string is an unrecognised mode.                      *)
(***************************************************************************)
DefaultSort  == "newest"
DefaultPage  == 1
DefaultLimit == 10

Ceil_AsFloor(a, b) == a \div b

\* Math.ceil(a / b), b > 0
Ceil(a, b) == IF a % b = 0 THEN a \div b ELSE (a \div b) + 1

\* the filters object the handler builds from req.query
Filters(q) ==
    [category |-> IF Truthy(q.category) THEN q.category ELSE UNDEF,
     tags     |-> IF q.tags.kind # "undefined" /\ q.tags.parts # <<>>
                  THEN Split(q.tags) ELSE <<>>,
     search   |-> IF Truthy(q.search) THEN q.search ELSE UNDEF,
     sort     |-> IF q.sort = UNDEF THEN DefaultSort
                  ELSE IF q.sort = "" THEN UNDEF ELSE q.sort,
     featured |-> IF q.featured = UNDEF THEN UNDEF
                  ELSE IF q.featured = "'true'" THEN "true" ELSE "false"]

\* $text: the words of the text index of a document
Words(doc) == {doc.title, doc.description} \cup {doc.tags[i] : i \in 1..Len(doc.tags)}

\* the query object of findWithFilters
Matches(doc, filters) ==
    /\ filters.category # UNDEF => doc.category = filters.category
    /\ Len(filters.tags) > 0 =>
          \E i \in 1..Len(doc.tags), j \in 1..Len(filters.tags) :
              doc.tags[i] = filters.tags[j]
    /\ filters.search # UNDEF => filters.search \in Words(doc)
    /\ filters.featured # UNDEF => doc.featured = (filters.featured = "true")

Desc(f) == [field |-> f, dir |-> -1]
Asc(f)  == [field |-> f, dir |-> 1]

\* the argument of mongoQuery.sort for a sort mode (UNDEF: filters.sort absent)
SortKeys(h, sort) ==
    IF h = "router"
    THEN CASE sort = "popular" -> <<Desc("featured"), Desc("views"), Desc("likes")>>
           [] sort = "name"    -> <<Desc("featured"), Asc("title")>>
           [] sort = "views"   -> <<Desc("featured"), Desc("views")>>
           [] OTHER            -> <<Desc("featured"), Desc("createdAt")>>
    ELSE CASE sort = "popular" -> <<Desc("featured"), Desc("views"), Desc("likes")>>
           [] sort = "name"    -> <<Asc("title")>>
           [] sort = "views"   -> <<Desc("views")>>
           [] OTHER            -> <<Desc("createdAt")>>

\* the value MongoDB compares for a sort field
KeyVal(doc, f) ==
    CASE f = "featured"  -> IF doc.featured THEN 1 ELSE 0
      [] f = "createdAt" -> doc.createdAt
      [] f = "views"     -> doc.views
      [] f = "likes"     -> doc.likes
      [] f = "title"     -> TitleRank(doc.title)

\* every value KeyVal yields, and every _id, is below KeyBase
KeyBase == 32

\* the rank of a document under sort(keys): documents compare as their ranks do.
\* MongoDB leaves the order of ties open; tb is the order this query returns
\* them in (1: by _id, -1: by _id reversed)
SortRank(doc, id, keys, tb) ==
    LET part(k) == IF k > Len(keys) THEN 0
                   ELSE IF keys[k].dir = 1 THEN KeyVal(doc, keys[k].field)
                   ELSE KeyBase - 1 - KeyVal(doc, keys[k].field)
    IN  ((part(1) * KeyBase + part(2)) * KeyBase + part(3)) * KeyBase
          + (IF tb = 1 THEN id ELSE KeyBase - 1 - id)

\* the _ids of the documents ids of s in the order of sort(keys): the k-th is
\* the one with k-1 documents before it
SortIds(s, ids, keys, tb) ==
    LET rank   == [i \in ids |-> SortRank(s[i], i, keys, tb)]
        before == [i \in ids |-> Cardinality({j \in ids : rank[j] < rank[i]})]
    IN  [k \in 1..Cardinality(ids) |-> CHOOSE i \in ids : before[i] = k - 1]

\* Portfolio.findWithFilters(filters): the _ids of the result, in order
findWithFilters(h, s, filters, tb) ==
    SortIds(s, {id \in DOMAIN s : Matches(s[id], filters)},
            SortKeys(h, filters.sort), tb)

SkipLimit_AsNoLimit(seq, skip, limit) == SubSeq(seq, skip + 1, Len(seq))

\* query.skip(skip).limit(limit)
SkipLimit(seq, skip, limit) ==
    SubSeq(seq, skip + 1, IF skip + limit < Len(seq) THEN skip + limit ELSE Len(seq))

List(h, q, tb) ==
    LET seeded   == IF h = "serverless"
                    THEN initializeDefaultData(store, nextId)
                    ELSE <<store, nextId>>
        s        == seeded[1]
        filters  == Filters(q)
        page     == IF q.page = UNDEF THEN DefaultPage ELSE ParseInt(q.page)
        limit    == IF q.limit = UNDEF THEN DefaultLimit ELSE ParseInt(q.limit)
        query    == findWithFilters(h, s, filters, tb)
        skip     == (page - 1) * limit
        portfolios == SkipLimit(query, skip, limit)
        totalItems == Len(findWithFilters(h, s, filters, tb))
        totalPages == Ceil(totalItems, limit)
    IN
    /\ connectDB(h)
    /\ UNCHANGED loaded
    /\ store' = s
    /\ nextId' = seeded[2]
    /\ reads' = NoReads(reads, DOMAIN s)
    /\ UNCHANGED <<blobs, nextBlob>>
    /\ resp' = [Response(h, "list", NULL, 200)
                  EXCEPT !.query = q,
                         !.data = portfolios,
                         !.pagination =
                            [skip |-> skip, currentPage |-> page,
                             totalPages |-> totalPages, totalItems |-> totalItems,
                             itemsPerPage |-> limit,
                             hasNext |-> page < totalPages,
                             hasPrev |-> page > 1]]

(***************************************************************************)
(* GET / of the serverless handler step by step, for invocations that run  *)
(* at the same time: the handler awaits connectDB, then countDocuments and *)
(* insertMany of initializeDefaultData, then its queries.                  *)
(***************************************************************************)
\* res.json of a list request that found collection s
ListResponse(h, s, q, tb) ==
    LET filters  == Filters(q)
        page     == IF q.page = UNDEF THEN DefaultPage ELSE ParseInt(q.page)
        limit    == IF q.limit = UNDEF THEN DefaultLimit ELSE ParseInt(q.limit)
        query    == findWithFilters(h, s, filters, tb)
        skip     == (page - 1) * limit
        totalItems == Len(query)
        totalPages == Ceil(totalItems, limit)
    IN  [Response(h, "list", NULL, 200)
           EXCEPT !.query = q,
                  !.data = SkipLimit(query, skip, limit),
                  !.pagination =
                     [skip |-> skip, currentPage |-> page,
                      totalPages |-> totalPages, totalItems |-> totalItems,
                      itemsPerPage |-> limit,
                      hasNext |-> page < totalPages,
                      hasPrev |-> page > 1]]

\* await connectDB(); const count = await Portfolio.countDocuments()
ListCount(r, q, tb) ==
    /\ r \notin DOMAIN loaded
    /\ connectDB("serverless")
    /\ loaded' = [p \in DOMAIN loaded \cup {r} |->
                    IF p = r
                    THEN [h |-> "serverless", q |-> q, tb |-> tb,
                          count |-> Cardinality(DOMAIN store),
                          pc |-> IF Cardinality(DOMAIN store) = 0
                                 THEN "insert" ELSE "find"]
                    ELSE loaded[p]]
    /\ UNCHANGED <<store, blobs, nextId, nextBlob, reads, resp>>

\* if (count === 0) await Portfolio.insertMany(defaultPortfolios)
ListInsert(r) ==
    /\ r \in DOMAIN loaded
    /\ loaded[r].pc = "insert"
    /\ nextId + NumSeeds <= KeyBase
    /\ store' = InsertSeeds(store, nextId)
    /\ nextId' = nextId + NumSeeds
    /\ reads' = NoReads(reads, DOMAIN store')
    /\ loaded' = [loaded EXCEPT ![r].pc = "find"]
    /\ UNCHANGED <<blobs, nextBlob, resp,
                   cachedConnection, readyState, mongodbUri>>

\* the find and countDocuments queries of the handler, then res.json
ListAnswer(r) ==
    /\ r \in DOMAIN loaded
    /\ loaded[r].pc = "find"
    /\ resp' = ListResponse(loaded[r].h, store, loaded[r].q, loaded[r].tb)
    /\ loaded' = [p \in DOMAIN loaded \ {r} |-> loaded[p]]
    /\ UNCHANGED <<store, blobs, nextId, nextBlob, reads,
                   cachedConnection, readyState, mongodbUri>>

(***************************************************************************)
(* The initial state: the Express server has started on a fresh database   *)
(* (startServer: connectDB, then initializeDefaultData); the serverless    *)
(* module is loaded and has not connected yet.                             *)
(***************************************************************************)
EmptyStore == [id \in {} |-> 0]

\* no read-by-id request is in flight
NoneLoaded == [r \in {} |-> 0]

Init ==
    /\ store = initializeDefaultData(EmptyStore, 1)[1]
    /\ nextId = initializeDefaultData(EmptyStore, 1)[2]
    /\ blobs = {}
    /\ nextBlob = 1
    /\ cachedConnection = NULL
    /\ readyState = 0
    /\ mongodbUri = TRUE
    /\ loaded = NoneLoaded
    /\ reads = [id \in 1..NumSeeds |-> 0]
    /\ resp = Response("router", "start", NULL, 0)

(***************************************************************************)
(* Requests.                                                               *)
(***************************************************************************)
Body(t, d, u, c, g, f, b) ==
    [title |-> t, description |-> d, url |-> u, category |-> c, tags |-> g,
     featured |-> f, imageBase64 |-> b, views |-> UNDEF, likes |-> UNDEF]

EmptyBody == Body(UNDEF, UNDEF, UNDEF, UNDEF, NoTags, UNDEF, UNDEF)
PlainBody == Body("Alpha", "desc", UNDEF, "AI/ML", NoTags, UNDEF, UNDEF)
Inline    == "data:image/png;base64,AAAA"


\* the _ids of the documents requests create (absent until created)
CreatedIds == NumSeeds + 1 .. MaxId

(***************************************************************************)
(* Spec, SpecRouter: the life of a document and of its image -- create,    *)
(* update and delete through both handlers (Spec) or through the Express   *)
(* router alone (SpecRouter).                                              *)
(***************************************************************************)
ReqIds == {BadId} \cup CreatedIds

Files == {"none", "image/png", "text/plain"}

ImageCreateBodies ==
    {[PlainBody EXCEPT !.category = c, !.imageBase64 = b] :
        c \in {"AI/ML", "Invalid"}, b \in {UNDEF, Inline}}

ImageUpdateBodies ==
    {[EmptyBody EXCEPT !.category = c, !.imageBase64 = b] :
        c \in {UNDEF, "Invalid"}, b \in {UNDEF, "", Inline}}

RouterCreate ==
    \E body \in ImageCreateBodies, file \in Files : Create("router", body, file)

ServerlessCreate ==
    \E body \in ImageCreateBodies : Create("serverless", body, "none")

RouterUpdate ==
    \E id \in ReqIds, body \in ImageUpdateBodies, file \in Files, up \in BOOLEAN :
        /\ body.imageBase64 # ""
        /\ Update("router", id, body, file, up)

ServerlessUpdate ==
    \E id \in ReqIds, body \in ImageUpdateBodies :
        Update("serverless", id, body, "none", TRUE)

RouterDelete ==
    \E id \in ReqIds, up \in BOOLEAN : Delete("router", id, up)

ServerlessDelete ==
    \E id \in ReqIds : Delete("serverless", id, TRUE)

NextRouter == RouterCreate \/ RouterUpdate \/ RouterDelete

Next == NextRouter \/ ServerlessCreate \/ ServerlessUpdate \/ ServerlessDelete

Spec == Init /\ [][Next]_vars

SpecRouter == Init /\ [][NextRouter]_vars

(***************************************************************************)
(* SpecCounters: reads and likes of created documents.                     *)
(***************************************************************************)
CounterIds == {BadId} \cup CreatedIds

Increments == {UNDEF, "true", "false", "'false'"}

CreatePlain == Create("router", PlainBody, "none")

Read == \E h \in Handlers, id \in CounterIds : GetById(h, id)

Like == \E id \in CounterIds, inc \in Increments : ToggleLike(id, inc)

NextCounters == CreatePlain \/ Read \/ Like

SpecCounters == Init /\ [][NextCounters]_vars

(***************************************************************************)
(* SpecFields: updates of the plain fields of the last seed, after two     *)
(* reads and one like of it.                                               *)
(***************************************************************************)
FieldIds == {NumSeeds}

InitFields ==
    /\ store = [initializeDefaultData(EmptyStore, 1)[1]
                  EXCEPT ![NumSeeds].views = 2, ![NumSeeds].likes = 1]
    /\ nextId = NumSeeds + 1
    /\ blobs = {}
    /\ nextBlob = 1
    /\ cachedConnection = NULL
    /\ readyState = 0
    /\ mongodbUri = TRUE
    /\ loaded = NoneLoaded
    /\ reads = [id \in 1..NumSeeds |-> IF id = NumSeeds THEN 2 ELSE 0]
    /\ resp = [Response("router", "like", NumSeeds, 200)
                 EXCEPT !.likes = 1, !.prior = 0]

\* bodies that carry none or one of the plain fields, some with a second
\* field, and some that carry views and likes as well
FieldUpdateBodies ==
    LET one == { [EmptyBody EXCEPT !.title = " Alpha "],
                 [EmptyBody EXCEPT !.description = "other"],
                 [EmptyBody EXCEPT !.url = "not a url"],
                 [EmptyBody EXCEPT !.category = "IoT"],
                 [EmptyBody EXCEPT !.category = "Invalid"],
                 [EmptyBody EXCEPT !.tags = TagString(<<>>)],
                 [EmptyBody EXCEPT !.featured = "'true'"] }
    IN  {EmptyBody} \cup one
          \cup {[b EXCEPT !.description = "other"] : b \in one}
          \cup {[b EXCEPT !.views = "5", !.likes = "4"] : b \in one \cup {EmptyBody}}

FieldUpdate ==
    \E h \in Handlers, id \in FieldIds, body \in FieldUpdateBodies :
        Update(h, id, body, "none", TRUE)

FieldUpload ==
    \E id \in FieldIds, body \in {EmptyBody, [EmptyBody EXCEPT !.likes = "4"]} :
        Update("router", id, body, "image/png", TRUE)

NextFields == FieldUpdate \/ FieldUpload

SpecFields == InitFields /\ [][NextFields]_vars

(***************************************************************************)
(* SpecImageUrl: the image fields of the last seed (which has a legacy     *)
(* image) and of the first created document, in every combination.         *)
(***************************************************************************)
UrlIds == {NumSeeds, NumSeeds + 1}

UrlCreate ==
    \E b \in {UNDEF, Inline}, file \in {"none", "image/png"} :
        Create("router", [PlainBody EXCEPT !.imageBase64 = b], file)

UrlRouterUpdate ==
    \E id \in UrlIds, b \in {UNDEF, Inline}, file \in {"none", "image/png"} :
        Update("router", id, [EmptyBody EXCEPT !.imageBase64 = b], file, TRUE)

UrlServerlessUpdate ==
    \E id \in UrlIds, b \in {"", Inline} :
        Update("serverless", id, [EmptyBody EXCEPT !.imageBase64 = b], "none", TRUE)

UrlRead == \E id \in UrlIds : GetById("router", id)

NextImageUrl == UrlCreate \/ UrlRouterUpdate \/ UrlServerlessUpdate \/ UrlRead

SpecImageUrl == Init /\ [][NextImageUrl]_vars

(***************************************************************************)
(* SpecQuery: list requests on stores whose documents differ in every sort *)
(* key: seeds 1, 2 and 9 are left of the seeds, they have been read and    *)
(* liked, and requests create more documents.                              *)
(***************************************************************************)
QuerySeeds == {1, 2, NumSeeds}

\* the store after deletes of the other seeds, one read of seeds 1 and 2, two
\* reads of seed 9 and one like of seed 2
SeedsLeft ==
    LET seeds == [initializeDefaultData(EmptyStore, 1)[1]
                    EXCEPT ![1].views = 1, ![2].views = 1, ![2].likes = 1,
                           ![NumSeeds].views = 2]
    IN  [id \in QuerySeeds |-> seeds[id]]

InitQuery ==
    /\ store = SeedsLeft
    /\ nextId = NumSeeds + 1
    /\ blobs = {}
    /\ nextBlob = 1
    /\ cachedConnection = NULL
    /\ readyState = 0
    /\ mongodbUri = TRUE
    /\ loaded = NoneLoaded
    /\ reads = [id \in 1..NumSeeds |->
                  IF id \in QuerySeeds THEN SeedsLeft[id].views ELSE 0]
    /\ resp = Response("router", "delete", NumSeeds - 1, 200)

SortModes == {UNDEF, "", "newest", "popular", "name", "views", "bogus"}

QueryCreate ==
    \E t \in {"Alpha", "Beta"}, f \in {UNDEF, "'true'"} :
        Create("router", [PlainBody EXCEPT !.title = t, !.featured = f], "none")

ListSorted ==
    \E h \in Handlers, o \in SortModes, tb \in {1, -1} :
        List(h, [NoQuery EXCEPT !.sort = o], tb)

ListPaged ==
    \E h \in Handlers, page \in {UNDEF, "2", "3"}, limit \in {UNDEF, "2"},
       f \in {UNDEF, "'false'"} :
        List(h, [NoQuery EXCEPT !.page = page, !.limit = limit, !.featured = f], 1)

NextQuery == QueryCreate \/ ListSorted \/ ListPaged

SpecQuery == InitQuery /\ [][NextQuery]_vars

(***************************************************************************)
(* SpecIds: every operation that takes an identifier, with malformed       *)
(* identifiers and with those of a created document and its blob.          *)
(***************************************************************************)
Ids == {BadId} \cup CreatedIds

IdCreate == Create("router", PlainBody, "image/png")

IdRead == \E h \in Handlers, id \in Ids : GetById(h, id)

IdUpdate ==
    \E h \in Handlers, id \in Ids, file \in Files :
        Update(h, id, [EmptyBody EXCEPT !.title = "Beta"],
               IF h = "router" THEN file ELSE "none", TRUE)

IdDelete == \E h \in Handlers, id \in Ids : Delete(h, id, TRUE)

IdLike == \E id \in Ids : ToggleLike(id, UNDEF)

IdImage == \E fileId \in {BadId} \cup (1..MaxBlobs) : GetImage(fileId)

NextIds == IdCreate \/ IdRead \/ IdUpdate \/ IdDelete \/ IdLike \/ IdImage

SpecIds == Init /\ [][NextIds]_vars

(***************************************************************************)
(* SpecFilters: list requests with filter parameters that are absent,      *)
(* recognised or unrecognised, on the stores of SpecQuery.                 *)
(***************************************************************************)
FeaturedParams == {UNDEF, "'true'", "'false'", "'yes'"}

CategoryParams == {UNDEF, "AI/ML", "Bogus"}

TagParams == {NoTags, TagString(<<"AI">>)}

ListFiltered ==
    \E h \in Handlers, f \in FeaturedParams, c \in CategoryParams, g \in TagParams :
        List(h, [NoQuery EXCEPT !.featured = f, !.category = c, !.tags = g], 1)

NextFilters == QueryCreate \/ ListFiltered

SpecFilters == InitQuery /\ [][NextFilters]_vars

(***************************************************************************)
(* SpecRace: two read-by-id requests at a time, their steps interleaved.   *)
(***************************************************************************)
RaceIds == {BadId, 1, NumSeeds}

RaceLoad == \E r \in Requests, h \in Handlers, id \in RaceIds : ReadLoad(r, h, id)

RaceSave == \E r \in Requests : ReadSave(r)

NextRace == RaceLoad \/ RaceSave

SpecRace == Init /\ [][NextRace]_vars

(***************************************************************************)
(* SpecSeed: deletes of the seeds that are left, and list requests.        *)
(***************************************************************************)
SeedDelete == \E h \in Handlers, id \in QuerySeeds : Delete(h, id, TRUE)

SeedList ==
    \E h \in Handlers, o \in {UNDEF, "name", "views"} :
        List(h, [NoQuery EXCEPT !.sort = o], 1)

NextSeed == SeedDelete \/ SeedList

SpecSeed == InitQuery /\ [][NextSeed]_vars

(***************************************************************************)
(* SpecConnect: invocations of the serverless handler in a process with or *)
(* without MONGODB_URI, with connects that fail and connections that drop. *)
(***************************************************************************)
InitConnect ==
    /\ store = initializeDefaultData(EmptyStore, 1)[1]
    /\ nextId = initializeDefaultData(EmptyStore, 1)[2]
    /\ blobs = {}
    /\ nextBlob = 1
    /\ cachedConnection = NULL
    /\ readyState = 0
    /\ mongodbUri \in BOOLEAN
    /\ loaded = NoneLoaded
    /\ reads = [id \in 1..NumSeeds |-> 0]
    /\ resp = Response("router", "start", NULL, 0)

ConnectCall == \E ok \in BOOLEAN : ConnectDB(ok)

ConnectRead == \E id \in {1, NumSeeds} : GetById("serverless", id)

NextConnect == ConnectCall \/ Disconnect \/ ConnectRead

SpecConnect == InitConnect /\ [][NextConnect]_vars

(***************************************************************************)
(* SpecUpdateRace: update requests of the Express router that run at the   *)
(* same time, on an entry created with or without an upload.               *)
(***************************************************************************)
RaceUpdateIds == {BadId} \cup CreatedIds

RaceCreate ==
    \E file \in {"none", "image/png"} : Create("router", PlainBody, file)

RaceUpdateBodies ==
    {[EmptyBody EXCEPT !.title = t, !.imageBase64 = b] :
        t \in {UNDEF, ""}, b \in {UNDEF, Inline}}

RaceUpdateLoad ==
    \E r \in Requests, id \in RaceUpdateIds, body \in RaceUpdateBodies,
       file \in {"none", "image/png"} :
        UpdateLoad(r, id, body, file, TRUE)

RaceUpdateBlobs == \E r \in Requests : UpdateBlobs(r)

RaceUpdateSave == \E r \in Requests : UpdateSave(r)

NextUpdateRace == RaceCreate \/ RaceUpdateLoad \/ RaceUpdateBlobs \/ RaceUpdateSave

SpecUpdateRace == Init /\ [][NextUpdateRace]_vars

(***************************************************************************)
(* SpecSeedRace: the serverless handler on a fresh database -- list        *)
(* invocations that run at the same time, and deletes.                     *)
(***************************************************************************)
InitEmpty ==
    /\ store = EmptyStore
    /\ nextId = 1
    /\ blobs = {}
    /\ nextBlob = 1
    /\ cachedConnection = NULL
    /\ readyState = 0
    /\ mongodbUri = TRUE
    /\ loaded = NoneLoaded
    /\ reads = [id \in {} |-> 0]
    /\ resp = Response("serverless", "start", NULL, 0)

SeedRaceCount ==
    \E r \in Requests, o \in {UNDEF, "name"} :
        ListCount(r, [NoQuery EXCEPT !.sort = o], 1)

SeedRaceInsert == \E r \in Requests : ListInsert(r)

SeedRaceAnswer == \E r \in Requests : ListAnswer(r)

SeedRaceDelete == \E id \in {1, NumSeeds + 1} : Delete("serverless", id, TRUE)

NextSeedRace == SeedRaceCount \/ SeedRaceInsert \/ SeedRaceAnswer \/ SeedRaceDelete

SpecSeedRace == InitEmpty /\ [][NextSeedRace]_vars

(***************************************************************************)
(* Properties.                                                             *)
(***************************************************************************)

\* C1: whatever like requests (increment true or false) have been served on
\* entries that started with likes = 0, no entry has negative likes, and a
\* like request with increment false on an entry whose likes is 0 leaves its
\* likes at 0.  (SpecCounters)
C1_LikesNeverNegative ==
    [][ /\ \A id \in DOMAIN store : store[id].likes >= 0
        /\ \A id \in DOMAIN store' : store'[id].likes >= 0
        /\ \A id \in CounterIds :
              (ToggleLike(id, "false") /\ id \in DOMAIN store /\ store[id].likes = 0)
                 => store'[id].likes = 0 /\ resp'.likes = 0 ]_vars

\* a like request with increment false has been served on an entry whose likes
\* was 0, and its likes is 0
C1_Witness ==
    /\ resp.op = "like" /\ resp.status = 200
    /\ resp.prior = 0 /\ resp.likes = 0
    /\ store[resp.id].likes = 0

\* C2: after any sequence of create and update requests through the Express
\* router (upload, inline base64 payload, both or neither), no stored entry
\* has both a non-null imageId and a non-empty imageBase64.  (SpecRouter)
C2_OneImageSource ==
    \A id \in DOMAIN store :
        ~(store[id].imageId # NULL /\ store[id].imageBase64 # "")

\* an update with an upload has replaced the image of an entry: imageId and
\* imageBase64 were both assigned, and the blob is the entry's only image
C2_Witness ==
    /\ resp.h = "router" /\ resp.op = "update" /\ resp.status = 200
    /\ {"imageId", "imageBase64"} \subseteq resp.fields
    /\ store[resp.id].imageId # NULL
    /\ store[resp.id].imageBase64 = ""

\* C3: the imageUrl of an entry the router answers with is the entry's
\* imageBase64 if that is non-empty, otherwise the blob URL of its imageId if
\* that is set, otherwise its image if that is non-empty, otherwise the empty
\* string -- for every combination of the three fields.  (SpecImageUrl)
C3_ImageUrlPrecedence ==
    (resp.h = "router" /\ resp.op \in {"get", "create", "update"}
       /\ resp.status \in {200, 201})
    => LET doc == store[resp.id]
       IN  /\ doc.imageBase64 # "" => resp.imageUrl = <<doc.imageBase64, NULL>>
           /\ (doc.imageBase64 = "" /\ doc.imageId # NULL)
                 => resp.imageUrl = <<"/api/portfolio/image/", doc.imageId>>
           /\ (doc.imageBase64 = "" /\ doc.imageId = NULL /\ doc.image # "")
                 => resp.imageUrl = <<doc.image, NULL>>
           /\ (doc.imageBase64 = "" /\ doc.imageId = NULL /\ doc.image = "")
                 => resp.imageUrl = <<"", NULL>>

\* the router has answered a read of an entry that has all three image fields
\* set, with the inline payload as its imageUrl
C3_Witness ==
    /\ resp.h = "router" /\ resp.op = "get" /\ resp.status = 200
    /\ store[resp.id].imageBase64 # ""
    /\ store[resp.id].imageId # NULL
    /\ store[resp.id].image # ""
    /\ resp.imageUrl = <<store[resp.id].imageBase64, NULL>>

\* C4: in every sort mode (newest, popular, name, views, unrecognised, absent)
\* the list findWithFilters returns, through either handler, has every
\* featured entry before every entry that is not featured, and entries of
\* equal featured in the order of the mode's secondary key: views then likes
\* descending (popular), title ascending (name), views descending (views),
\* createdAt descending (any other).  (SpecQuery)
C4_FeaturedFirst ==
    resp.op = "list" =>
        \A i, j \in 1..Len(resp.data) :
            i < j =>
                LET a == store[resp.data[i]]
                    b == store[resp.data[j]]
                    mode == resp.query.sort
                IN  /\ a.featured \/ ~b.featured
                    /\ a.featured = b.featured =>
                         CASE mode = "popular" ->
                                \/ a.views > b.views
                                \/ a.views = b.views /\ a.likes >= b.likes
                           [] mode = "name" ->
                                TitleRank(a.title) <= TitleRank(b.title)
                           [] mode = "views" -> a.views >= b.views
                           [] OTHER -> a.createdAt >= b.createdAt

\* C5: a list response reports skip = (page-1)*limit, totalPages =
\* ceil(totalItems/limit) (the least n with n*limit >= totalItems), hasNext =
\* (page < totalPages) and hasPrev = (page > 1), where totalItems is the
\* number of entries matching the filters, and its data are the entries from
\* skip on, limit at most.  (SpecQuery)
C5_Pagination ==
    resp.op = "list" =>
        LET page  == IF resp.query.page = UNDEF THEN 1
                     ELSE ParseInt(resp.query.page)
            limit == IF resp.query.limit = UNDEF THEN 10
                     ELSE ParseInt(resp.query.limit)
            total == Cardinality({id \in DOMAIN store :
                                    Matches(store[id], Filters(resp.query))})
            p     == resp.pagination
            rest  == IF total > p.skip THEN total - p.skip ELSE 0
        IN  /\ p.currentPage = page /\ p.itemsPerPage = limit
            /\ p.totalItems = total
            /\ p.skip = (page - 1) * limit
            /\ p.totalPages * limit >= total
            /\ (p.totalPages - 1) * limit < total
            /\ p.hasNext = (page < p.totalPages)
            /\ p.hasPrev = (page > 1)
            /\ Len(resp.data) = IF rest < limit THEN rest ELSE limit

\* page 2 of 2 of a list of three entries, two a page: one entry on it, a
\* page before it and none after it
C5_Witness ==
    /\ resp.op = "list"
    /\ resp.query.page = "2" /\ resp.query.limit = "2"
    /\ resp.pagination.totalItems = 3
    /\ resp.pagination.totalPages = 2
    /\ resp.pagination.skip = 2
    /\ Len(resp.data) = 1
    /\ resp.pagination.hasPrev /\ ~resp.pagination.hasNext

\* C6: read-by-id requests on an existing entry, one after another, all
\* succeed, and the views of the entry is higher than at its start by the
\* number of them (3 after 3 reads of a freshly created entry).  (SpecCounters)
C6_ViewsCountReads ==
    /\ \A id \in DOMAIN store : store[id].views = reads[id]
    /\ (resp.op = "get" /\ resp.id \in DOMAIN store) => resp.status = 200

\* a created entry has been read three times and its views is 3
C6_Witness ==
    \E id \in CreatedIds :
        /\ id \in DOMAIN store
        /\ reads[id] = 3 /\ store[id].views = 3
        /\ resp.op = "get" /\ resp.id = id /\ resp.status = 200

\* C7: a create request with a category outside the seven values is answered
\* 400 with the category message among the details, and the stored entries
\* are the same after it as before.  (Spec)
C7_InvalidCategoryRejected ==
    [][ \A h \in Handlers, body \in ImageCreateBodies, file \in Files :
            (Create(h, body, file) /\ body.category \notin Categories)
               => /\ resp'.status = 400
                  /\ MsgCategoryEnum \in resp'.details
                  /\ store' = store ]_vars

\* C8: a delete request on an existing entry whose imageId is set, served
\* while the deletion of the blob fails, removes the entry and answers
\* success (200).  (Spec)
C8_DeleteDespiteBlobFailure ==
    [][ \A id \in ReqIds, up \in BOOLEAN :
            (/\ Delete("router", id, up)
             /\ id \in DOMAIN store
             /\ store[id].imageId # NULL
             /\ ~DeleteOk(blobs, store[id].imageId, up))
               => /\ resp'.status = 200
                  /\ id \notin DOMAIN store' ]_vars

\* a delete has been answered 200 after the deletion of the blob failed: the
\* entry is gone and its blob is still stored
C8_Witness ==
    /\ resp.op = "delete" /\ resp.status = 200 /\ resp.warn
    /\ resp.id \notin DOMAIN store
    /\ blobs # {}

\* C9: after a successful delete of an entry whose imageId is set, with the
\* blob store reachable, the blob of that imageId is no longer stored --
\* through either delete handler.  (Spec)
C9_DeleteReleasesBlob ==
    [][ \A h \in Handlers, id \in ReqIds :
            (/\ Delete(h, id, TRUE)
             /\ id \in DOMAIN store
             /\ store[id].imageId # NULL
             /\ resp'.status = 200)
               => store[id].imageId \notin blobs' ]_vars

\* C10: an update request leaves every one of title, description, url,
\* category, tags and featured that the request does not carry as it was, and
\* leaves views and likes as they were whatever the body carries.  (SpecFields)
C10_UpdateFrame ==
    [][ \A h \in Handlers, id \in FieldIds, body \in FieldUpdateBodies,
           file \in {"none", "image/png"} :
            (Update(h, id, body, file, TRUE) /\ id \in DOMAIN store)
               => /\ \A f \in {"title", "description", "url", "category", "featured"} :
                        body[f] = UNDEF => store'[id][f] = store[id][f]
                  /\ body.tags.kind = "undefined" => store'[id].tags = store[id].tags
                  /\ store'[id].views = store[id].views
                  /\ store'[id].likes = store[id].likes ]_vars

\* an update that carried a title and nothing else has been applied: the title
\* is the new one, the description, views and likes are the old ones
C10_Witness ==
    /\ resp.op = "update" /\ resp.status = 200 /\ resp.fields = {"title"}
    /\ store[NumSeeds].title = "Alpha"
    /\ store[NumSeeds].description = "seed description"
    /\ store[NumSeeds].views = 2 /\ store[NumSeeds].likes = 1

\* C11: a read-by-id, update, delete, like or image request with a malformed
\* identifier is answered 400 and makes no access to the document store or
\* the blob store: no connection is opened and nothing is read, written or
\* deleted.  (SpecIds)
C11_BadIdNoAccess ==
    [][ (\/ \E h \in Handlers : GetById(h, BadId)
         \/ \E h \in Handlers, file \in Files :
               Update(h, BadId, [EmptyBody EXCEPT !.title = "Beta"],
                      IF h = "router" THEN file ELSE "none", TRUE)
         \/ \E h \in Handlers : Delete(h, BadId, TRUE)
         \/ ToggleLike(BadId, UNDEF)
         \/ GetImage(BadId))
        => /\ resp'.status = 400
           /\ UNCHANGED <<store, blobs, nextId, nextBlob, cachedConnection,
                          readyState, mongodbUri, loaded, reads>> ]_vars

\* C12 (as stated): every successful like request moves the likes of the
\* entry by exactly 1, up when increment is true and down when it is false,
\* whatever the likes were.  (SpecCounters)
C12_AlwaysMovesByOne ==
    [][ \A id \in CounterIds, inc \in {"true", "false"} :
            (ToggleLike(id, inc) /\ resp'.status = 200)
               => store'[id].likes
                    = store[id].likes + (IF inc = "true" THEN 1 ELSE -1) ]_vars

\* C12 (amended): every successful like request moves the likes of the entry
\* by exactly 1, up when increment is true and down when it is false, except
\* that a request with increment false on an entry whose likes is 0 leaves
\* it at 0.  (SpecCounters)
C12_MovesByOneOrFloors ==
    [][ \A id \in CounterIds, inc \in {"true", "false"} :
            (ToggleLike(id, inc) /\ resp'.status = 200)
               => /\ inc = "true" => store'[id].likes = store[id].likes + 1
                  /\ (inc = "false" /\ store[id].likes > 0)
                        => store'[id].likes = store[id].likes - 1
                  /\ (inc = "false" /\ store[id].likes = 0)
                        => store'[id].likes = 0
                  /\ resp'.likes = store'[id].likes ]_vars

\* a like request has taken the likes of an entry from 2 down to 1
C12_Witness ==
    /\ resp.op = "like" /\ resp.status = 200
    /\ resp.prior = 2 /\ resp.likes = 1
    /\ store[resp.id].likes = 1

\* C13: in a list request a filter parameter (category, tags, featured) that
\* is absent or carries an unrecognised value filters nothing: the entries
\* listed are those that pass the recognised parameters alone; a featured
\* parameter that is neither 'true' nor 'false' does not restrict the list.
\* (SpecFilters)
C13_UnrecognisedFiltersAreNoOps ==
    resp.op = "list" =>
        LET q == resp.query
            passes(doc) ==
                /\ q.featured = "'true'" => doc.featured
                /\ q.featured = "'false'" => ~doc.featured
                /\ q.category \in Categories => doc.category = q.category
                /\ q.tags.kind # "undefined" =>
                      \E i \in 1..Len(doc.tags), j \in 1..Len(q.tags.parts) :
                          doc.tags[i] = q.tags.parts[j]
        IN  {resp.data[i] : i \in 1..Len(resp.data)}
              = {id \in DOMAIN store : passes(store[id])}

\* C14: a request that carries an upload whose type does not begin with
\* 'image/' is answered 400, and no entry and no blob is created or changed
\* by it.  (Spec)
C14_NonImageUploadRejected ==
    [][ (\/ \E body \in ImageCreateBodies : Create("router", body, "text/plain")
         \/ \E id \in ReqIds, body \in ImageUpdateBodies, up \in BOOLEAN :
               Update("router", id, body, "text/plain", up))
        => /\ resp'.status = 400
           /\ UNCHANGED <<store, blobs>> ]_vars

\* C15: an update with an upload on an existing entry attempts to delete the
\* old blob if imageId was set, and goes on when that fails; it stores the new
\* blob; then it saves the entry with imageId the new blob's reference and
\* imageBase64 empty, and the imageUrl it answers with is the blob URL of the
\* new reference.  Only the validation of the entry rejects the request, and
\* it does so after the two blob operations.  (SpecRouter)
C15_UploadReplacesImage ==
    [][ \A id \in CreatedIds, body \in ImageUpdateBodies, up \in BOOLEAN :
            (Update("router", id, body, "image/png", up) /\ id \in DOMAIN store)
               => LET old == store[id].imageId
                  IN  /\ blobs' = (IF old # NULL /\ up THEN blobs \ {old} ELSE blobs)
                                     \cup {nextBlob}
                      /\ body.category = UNDEF => resp'.status = 200
                      /\ resp'.status # 200 =>
                            (resp'.status = 400 /\ resp'.details # {} /\ store' = store)
                      /\ resp'.status = 200 =>
                            /\ store'[id].imageId = nextBlob
                            /\ store'[id].imageBase64 = ""
                            /\ resp'.imageUrl = <<"/api/portfolio/image/", nextBlob>> ]_vars

\* an update with an upload has been answered 200 although the deletion of the
\* old blob failed: the entry refers to the new blob, which is stored
C15_Witness ==
    /\ resp.h = "router" /\ resp.op = "update" /\ resp.status = 200 /\ resp.warn
    /\ {"imageId", "imageBase64"} \subseteq resp.fields
    /\ store[resp.id].imageId \in blobs
    /\ resp.imageUrl = <<"/api/portfolio/image/", store[resp.id].imageId>>

\* C16: an update with an inline payload and no upload, through either update
\* handler, stores the payload as imageBase64 and, when the entry had a blob
\* reference, deletes that blob (the bucket being reachable) and sets imageId
\* to null.  (Spec)
C16_PayloadReplacesBlob ==
    [][ \A h \in Handlers, id \in CreatedIds, body \in ImageUpdateBodies :
            (/\ Update(h, id, body, "none", TRUE)
             /\ id \in DOMAIN store
             /\ body.imageBase64 = Inline
             /\ resp'.status = 200)
               => /\ store'[id].imageBase64 = Inline
                  /\ store[id].imageId # NULL =>
                        /\ store[id].imageId \notin blobs'
                        /\ store'[id].imageId = NULL ]_vars

\* C17: read-by-id requests that run at the same time all succeed, each
\* saving the views it loaded plus 1, so the number of successful reads of an
\* entry is an upper bound of the increase of its views -- and not always
\* equal to it: two requests can both load, then both save, and views rises
\* by 1 (the witness).  (SpecRace)
C17_ReadsBoundViews ==
    [][ /\ \A id \in DOMAIN store' : store'[id].views <= reads'[id]
        /\ \A r \in Requests :
              ReadSave(r) =>
                  /\ resp'.status = 200
                  /\ store'[loaded[r].id].views = loaded[r].doc.views + 1 ]_vars

\* two reads of entry 1 have both been answered 200, none is in flight, and
\* its views is 1
C17_Witness ==
    /\ reads[1] = 2 /\ store[1].views = 1
    /\ DOMAIN loaded = {}
    /\ resp.op = "get" /\ resp.id = 1 /\ resp.status = 200

\* C18: the seed entries are inserted at startup only: after startup no
\* delete or list request, in any sequence (deleting every entry and then
\* listing included), inserts an entry.  (SpecSeed)
C18_SeededOnce ==
    [][ /\ DOMAIN store' \subseteq DOMAIN store
        /\ nextId' = nextId ]_vars

\* C19: in the serverless process the first connectDB call with the connection
\* string set and the store reachable opens and caches a connection; while a
\* cached connection is ready no step opens another; and a connectDB call in
\* a process without the connection string fails (500) and caches nothing.
\* (SpecConnect)
C19_ConnectionCached ==
    [][ /\ (cachedConnection # NULL /\ readyState = 1)
              => cachedConnection' = cachedConnection
        /\ \A ok \in BOOLEAN :
              ConnectDB(ok) =>
                  /\ (cachedConnection = NULL /\ mongodbUri /\ ok)
                        => (cachedConnection' # NULL /\ readyState' = 1
                              /\ resp'.status = 200)
                  /\ ~mongodbUri
                        => (resp'.status = 500 /\ cachedConnection' = NULL
                              /\ readyState' = 0) ]_vars

\* two serverless reads of entry 1 have been served, each after a connectDB
\* call, and the cached connection is still the first one opened
C19_Witness ==
    /\ resp.h = "serverless" /\ resp.op = "get" /\ resp.status = 200
    /\ reads[1] = 2
    /\ cachedConnection = 1 /\ readyState = 1

\* C20: whatever create, update and delete requests the Express router has
\* served, requests that failed part-way included, every stored entry whose
\* imageId is not null refers to a blob that is in the blob store.
\* (SpecRouter)
C20_ImageIdRefersToBlob ==
    \A id \in DOMAIN store :
        store[id].imageId # NULL => store[id].imageId \in blobs

\* C21: a create or update request that ends with a validation error (status
\* 400 with the validation messages) leaves the blob store as it was before
\* the request: no blob is added and none is removed.  (SpecRouter)
C21_ValidationErrorKeepsBlobs ==
    [][ (/\ resp'.op \in {"create", "update"}
         /\ resp'.status = 400
         /\ resp'.details # {})
           => blobs' = blobs ]_vars

\* C22: update requests of the router that run at the same time on one
\* entry, one with an upload and one with an inline payload, each loading the
\* entry before the other saves and each writing the paths it modified, never
\* leave a stored entry with both a non-null imageId and a non-empty
\* imageBase64.  (SpecUpdateRace)
C22_OneImageSourceUnderInterleaving ==
    \A id \in DOMAIN store :
        ~(store[id].imageId # NULL /\ store[id].imageBase64 # "")

\* C23: list invocations of the serverless handler that run at the same time
\* on an empty store insert the seed entries once: the store never holds two
\* copies of a seed entry (two entries with the same seed title).
\* (SpecSeedRace)
C23_SeedsInsertedOnce ==
    \A i, j \in DOMAIN store :
        i # j => store[i].title # store[j].title

\* C24: for a list request with page >= 1 and limit >= 1, answered on a store
\* that then stays as it is, hasNext is true exactly when the request for
\* page + 1 with the same filters, sort and limit returns at least one entry
\* (whatever order MongoDB gives to ties), and the page holds limit entries at
\* most.  (SpecQuery)
C24_HasNextMeansNextPage ==
    (/\ resp.op = "list"
     /\ resp.pagination.currentPage >= 1
     /\ resp.pagination.itemsPerPage >= 1)
       => LET page  == resp.pagination.currentPage
              limit == resp.pagination.itemsPerPage
              nextPage(tb) ==
                  SkipLimit(findWithFilters(resp.h, store, Filters(resp.query), tb),
                            ((page + 1) - 1) * limit, limit)
          IN  /\ \A tb \in {1, -1} :
                    resp.pagination.hasNext = (Len(nextPage(tb)) >= 1)
              /\ Len(resp.data) <= limit

\* page 1 of a list of three entries, two a page: the page is full, hasNext
\* is true and page 2 holds the third entry
C24_Witness ==
    /\ resp.op = "list"
    /\ resp.pagination.currentPage = 1 /\ resp.pagination.itemsPerPage = 2
    /\ resp.pagination.totalItems = 3
    /\ Len(resp.data) = 2
    /\ resp.pagination.hasNext
    /\ Len(SkipLimit(findWithFilters(resp.h, store, Filters(resp.query), 1),
                     2, 2)) = 1

====
